---- MODULE Spec2Model ----
(***************************************************************************)
(* A model of FreeCAD-NativeIFC's geometry synchronisation                 *)
(* (ifc_geometry.py: add_geom_properties, set_geom_property) and of its    *)
(* view provider base class (ifc_viewproviders/ifc_vp_object.py).          *)
(*                                                                         *)
(* Python floats are modelled as IEEE 754 binary64 values: products and    *)
(* quotients are rounded to nearest, ties to even, so that a conversion    *)
(* and its inverse need not compose to the identity.                       *)
(* IFC entities are records carrying the attributes the code reads, and    *)
(* is_a compares the class name.  The inputs are entities as the toolkit   *)
(* hands them out: aggregates are tuples, and an entity has the attributes *)
(* of its class only.  IfcCartesianPoint entities live in a store keyed by *)
(* entity id, so that one entity may occur more than once in a polyline    *)
(* (a closed polyline repeats its first point).                            *)
(***************************************************************************)
EXTENDS Integers, Sequences, FiniteSets, TLC

\* ------------------------------------------------------------------ bounds
\* calls made in one run
MaxSteps == 2
\* view provider calls made in one run
MaxVpCalls == 3
\* representations of an element (TwoBodyElements have two at any bound)
MaxReps == 1

\* ------------------------------------------------------- IEEE 754 binary64
\* A Python float is a record [sgn, exp, man]: the value is
\* (-1)^sgn * man * 2^exp, where man is a 53-bit integer (2^52 <= man < 2^53)
\* kept as four limbs of 14 bits, least significant first; zero has man 0.
\* Products and quotients are rounded to nearest, ties to even, as the
\* hardware does.  The values of the model stay far from overflow and
\* underflow, which are not modelled.
Base == 2^14

At(x, i) == IF i \in DOMAIN x THEN x[i] ELSE 0

RECURSIVE LimbBits(_)
LimbBits(x) == IF x = 0 THEN 0 ELSE 1 + LimbBits(x \div 2)

\* number of significant bits of the limbs x
BitLen(x) ==
    LET nz == {i \in DOMAIN x : x[i] # 0}
        t == CHOOSE i \in nz : \A j \in nz : j <= i
    IN IF nz = {} THEN 0 ELSE 14 * (t - 1) + LimbBits(x[t])

\* floor(x / 2^s) and x * 2^s, as four limbs
ShiftRight(x, s) ==
    LET w == s \div 14
        b == s % 14
    IN [i \in 1..4 |-> (At(x, i + w) \div 2^b) + (At(x, i + w + 1) % 2^b) * 2^(14 - b)]
ShiftLeft(x, s) ==
    LET w == s \div 14
        b == s % 14
    IN [i \in 1..4 |-> (At(x, i - w) % 2^(14 - b)) * 2^b
                       + (At(x, i - w - 1) \div 2^(14 - b))]

\* bit j of x (bit 0 is the lowest); all bits of x below bit j are zero
BitAt(x, j) == (At(x, j \div 14 + 1) \div 2^(j % 14)) % 2
LowZero(x, j) ==
    /\ \A i \in DOMAIN x : i <= j \div 14 => x[i] = 0
    /\ At(x, j \div 14 + 1) % 2^(j % 14) = 0

\* x + 1 on four limbs
Inc4(x) ==
    IF x[1] < Base - 1 THEN <<x[1] + 1, x[2], x[3], x[4]>>
    ELSE IF x[2] < Base - 1 THEN <<0, x[2] + 1, x[3], x[4]>>
    ELSE IF x[3] < Base - 1 THEN <<0, 0, x[3] + 1, x[4]>>
    ELSE <<0, 0, 0, x[4] + 1>>

FZero(sgn) == [sgn |-> sgn, exp |-> 0, man |-> <<0, 0, 0, 0>>]
IsZero(a) == a.man = <<0, 0, 0, 0>>

\* the only element of a one-element set; {f(v) : v \in {e}} computes e once,
\* however often f uses v
The(S) == CHOOSE r \in S : TRUE

\* x * 2^e for limbs x of len significant bits, rounded to 53 bits
RoundAt(sgn, x, e, sticky, len) ==
    LET s == len - 53
        q == ShiftRight(x, s)
        half == BitAt(x, s - 1) = 1
        rest == sticky \/ ~LowZero(x, s - 1)
        r == IF half /\ (rest \/ q[1] % 2 = 1) THEN Inc4(q) ELSE q
    IN IF len = 0 THEN FZero(sgn)
       ELSE IF len <= 53
       THEN [sgn |-> sgn, exp |-> e - (53 - len), man |-> ShiftLeft(x, 53 - len)]
       ELSE IF r[4] = 2^11
       THEN [sgn |-> sgn, exp |-> e + s + 1, man |-> <<0, 0, 0, 2^10>>]
       ELSE [sgn |-> sgn, exp |-> e + s, man |-> r]

\* the float nearest to (-1)^sgn * x * 2^e (ties to even); sticky: the exact
\* value lies above x * 2^e by less than 2^e
Round53(sgn, x, e, sticky) ==
    The({RoundAt(sgn, v, e, sticky, BitLen(v)) : v \in {x}})

\* float(n) of a Python int (every int of the model is exact as a float)
F(n) ==
    LET a == IF n < 0 THEN -n ELSE n
    IN Round53(IF n < 0 THEN 1 ELSE 0,
               <<a % Base, (a \div Base) % Base, a \div (Base * Base), 0>>, 0, FALSE)

\* the exact product of two mantissas, eight limbs
MulLimbs(a, b) ==
    LET c1 == a[1] * b[1]
        c2 == a[1] * b[2] + a[2] * b[1] + c1 \div Base
        c3 == a[1] * b[3] + a[2] * b[2] + a[3] * b[1] + c2 \div Base
        c4 == a[1] * b[4] + a[2] * b[3] + a[3] * b[2] + a[4] * b[1] + c3 \div Base
        c5 == a[2] * b[4] + a[3] * b[3] + a[4] * b[2] + c4 \div Base
        c6 == a[3] * b[4] + a[4] * b[3] + c5 \div Base
        c7 == a[4] * b[4] + c6 \div Base
    IN <<c1 % Base, c2 % Base, c3 % Base, c4 % Base, c5 % Base, c6 % Base,
         c7 % Base, c7 \div Base>>

\* a * b
FMul(a, b) ==
    IF IsZero(a) \/ IsZero(b) THEN FZero((a.sgn + b.sgn) % 2)
    ELSE Round53((a.sgn + b.sgn) % 2, MulLimbs(a.man, b.man), a.exp + b.exp, FALSE)

\* x >= y and x - y (for x >= y) on four limbs
Ge4(x, y) ==
    LET d == {i \in 1..4 : x[i] # y[i]}
        t == CHOOSE i \in d : \A j \in d : j <= i
    IN d = {} \/ x[t] > y[t]
Sub4(x, y) ==
    LET d1 == x[1] - y[1]
        d2 == x[2] - y[2] - (IF d1 < 0 THEN 1 ELSE 0)
        d3 == x[3] - y[3] - (IF d2 < 0 THEN 1 ELSE 0)
        d4 == x[4] - y[4] - (IF d3 < 0 THEN 1 ELSE 0)
    IN <<d1 % Base, d2 % Base, d3 % Base, d4>>

\* one step of the long division by d: qr holds the quotient bits so far and
\* twice the remainder
DivStep(qr, d) ==
    LET ge == Ge4(qr[2], d)
        q2 == ShiftLeft(qr[1], 1)
    IN <<IF ge THEN Inc4(q2) ELSE q2,
         ShiftLeft(IF ge THEN Sub4(qr[2], d) ELSE qr[2], 1)>>

\* k >= 1 steps: the first half of them is computed to its end before the
\* second half starts
RECURSIVE DivSteps(_, _, _)
DivSteps(qr, d, k) ==
    IF k = 1 THEN DivStep(qr, d)
    ELSE The({DivSteps(v, d, k - k \div 2) : v \in {DivSteps(qr, d, k \div 2)}})

\* a / b for b # 0 (a unit scale is positive)
FDiv(a, b) ==
    IF IsZero(a) THEN FZero((a.sgn + b.sgn) % 2)
    ELSE The({Round53((a.sgn + b.sgn) % 2, qr[1], a.exp - b.exp - 54,
                      qr[2] # <<0, 0, 0, 0>>) :
              qr \in {DivSteps(<<<<0, 0, 0, 0>>, a.man>>, b.man, 55)}})

\* the float a decimal literal n/d of the source denotes (n/d correctly
\* rounded, which the division of the two exact floats gives)
Lit(n, d) == FDiv(F(n), F(d))

\* the values standing for Python's None / an attribute that is not there:
\* NoneV where a tuple or a list is expected, NoneF where a float is
NoneV == <<>>
NoneF == [sgn |-> 0, exp |-> 0, man |-> <<>>]

BoundedSeq(S, n) == UNION {[1..k -> S] : k \in 0..n}

\* ------------------------------------------------------------ IFC entities
\* entity.is_a(cls)
IsA(entity, cls) == entity.cls = cls

\* a curve carries the Python type of its Points aggregate; the toolkit hands
\* aggregates out as tuples
NoCurve == [cls |-> "None", Points |-> <<>>, PointsType |-> "tuple"]
IfcPolyline(pts, type) == [cls |-> "IfcPolyline", Points |-> pts, PointsType |-> type]
IfcCompositeCurve == [cls |-> "IfcCompositeCurve", Points |-> <<>>, PointsType |-> "tuple"]

NoProfile == [cls |-> "None", XDim |-> NoneF, YDim |-> NoneF, OuterCurve |-> NoCurve]
IfcRectangleProfileDef(x, y) ==
    [cls |-> "IfcRectangleProfileDef", XDim |-> x, YDim |-> y, OuterCurve |-> NoCurve]
IfcArbitraryClosedProfileDef(curve) ==
    [cls |-> "IfcArbitraryClosedProfileDef", XDim |-> NoneF, YDim |-> NoneF,
     OuterCurve |-> curve]
IfcCircleProfileDef ==
    [cls |-> "IfcCircleProfileDef", XDim |-> NoneF, YDim |-> NoneF, OuterCurve |-> NoCurve]

IfcExtrudedAreaSolid(depth, dir, profile) ==
    [cls |-> "IfcExtrudedAreaSolid", Depth |-> depth,
     ExtrudedDirection |-> [DirectionRatios |-> dir], SweptArea |-> profile]
IfcFacetedBrep ==
    [cls |-> "IfcFacetedBrep", Depth |-> NoneF,
     ExtrudedDirection |-> [DirectionRatios |-> NoneV], SweptArea |-> NoProfile]
\* An IfcArbitraryClosedProfileDef that a file lists as the item of a
\* representation: it answers is_a("IfcArbitraryClosedProfileDef") (line 198)
\* and, as every profile, has no SweptArea attribute (line 199).
ProfileAsItem ==
    [cls |-> "IfcArbitraryClosedProfileDef", Depth |-> NoneF,
     ExtrudedDirection |-> [DirectionRatios |-> NoneV], SweptArea |-> NoProfile]

IfcShapeRepresentation(ident, items) ==
    [RepresentationIdentifier |-> ident, Items |-> items]

\* ------------------------------------------------------------------ inputs
\* the literals 1000 and 0.001 of the source
Thousand == F(1000)
Milli == Lit(1, 1000)

\* calculate_unit_scale(ifcfile): 0.001 for a millimetre file, 0.3048 for a
\* foot file
Millimetre == Lit(1, 1000)
Foot == Lit(3048, 10000)
Scales == {Millimetre, Foot}

\* the IfcCartesianPoint entities a file starts with: #1 and #3 are 2D, #2 is 3D
InitCoordinates ==
    (1 :> <<F(0), F(0)>>) @@ (2 :> <<F(4), F(0), F(0)>>) @@ (3 :> <<F(4), F(3)>>)

\* OuterCurve.Points of the polylines of the element: all 2D, mixed, first
\* point 3D, closed (the first entity repeated as the last)
PolyInits == {<<1, 3>>, <<1, 2, 3>>, <<2, 3>>, <<1, 3, 1>>}
Polylines == {IfcPolyline(pts, "tuple") : pts \in PolyInits}

RectA == IfcExtrudedAreaSolid(F(3), <<0, 0, 1>>, IfcRectangleProfileDef(F(2), F(1)))
RectB ==
    IfcExtrudedAreaSolid(Lit(5, 2), <<0, 1, 0>>, IfcRectangleProfileDef(F(4), F(3)))
PolyExt(curve) ==
    IfcExtrudedAreaSolid(F(6), <<1, 0, 0>>, IfcArbitraryClosedProfileDef(curve))
CompExt ==
    IfcExtrudedAreaSolid(F(7), <<0, 0, 1>>, IfcArbitraryClosedProfileDef(IfcCompositeCurve))
CircExt == IfcExtrudedAreaSolid(F(8), <<0, 0, 1>>, IfcCircleProfileDef)

PlainReps ==
    { IfcShapeRepresentation("Axis", <<RectA>>),
      IfcShapeRepresentation("Body", <<RectA, RectB>>),
      IfcShapeRepresentation("Body", <<IfcFacetedBrep>>),
      IfcShapeRepresentation("Body", <<RectA>>),
      IfcShapeRepresentation("Body", <<RectB>>),
      IfcShapeRepresentation("Body", <<CompExt>>),
      IfcShapeRepresentation("Body", <<CircExt>>),
      IfcShapeRepresentation("Body", <<ProfileAsItem>>) }
PolyReps(curve) ==
    { IfcShapeRepresentation("Body", <<PolyExt(curve)>>) }

\* elements with two Body representations that each hold a single item:
\* the loops of both functions meet more than one candidate
TwoBodyElements(curve) ==
    { <<IfcShapeRepresentation("Body", <<RectA>>),
        IfcShapeRepresentation("Body", <<RectB>>)>>,
      <<IfcShapeRepresentation("Body", <<CircExt>>),
        IfcShapeRepresentation("Body", <<RectB>>)>>,
      <<IfcShapeRepresentation("Body", <<RectA>>),
        IfcShapeRepresentation("Body", <<PolyExt(curve)>>)>>,
      <<IfcShapeRepresentation("Body", <<ProfileAsItem>>),
        IfcShapeRepresentation("Body", <<PolyExt(curve)>>)>> }

\* the elements: every list of up to MaxReps representations and the
\* TwoBodyElements; an element without polyline is taken once, one with
\* polylines once per polyline
ElementsWith(curve) ==
    BoundedSeq(PlainReps \cup PolyReps(curve), MaxReps) \cup TwoBodyElements(curve)
Elements == UNION { ElementsWith(curve) : curve \in Polylines }

\* host property names (Label stands for every property that is not geometry)
GeomProps ==
    {"ExtrusionDepth", "ExtrusionDirection", "RectangleLength", "RectangleWidth",
     "PolylinePoints"}
PropNames == GeomProps \cup {"Label"}
\* the host properties that hold a length
LengthProps == {"ExtrusionDepth", "RectangleLength", "RectangleWidth"}

HP2 == << <<F(0), F(0), F(0)>>, <<F(1524), F(0), F(0)>> >>
HP4 == HP2 \o << <<F(1524), F(3048), F(0)>>, <<F(0), F(3048), F(7)>> >>

\* the values a user may type into a geometry property (millimetres)
EditValues ==
    [prop \in GeomProps |->
        CASE prop = "ExtrusionDepth" -> {F(2500)}
          [] prop = "ExtrusionDirection" -> {<<1, 1, 0>>}
          [] prop = "RectangleLength" -> {F(1200)}
          [] prop = "RectangleWidth" -> {Lit(7, 2)}
          [] prop = "PolylinePoints" -> {<<>>, HP2, HP4}]

\* a document object that has never been synchronised
FreshObj ==
    [PropertiesList |-> {"Label"},
     val |-> [p \in GeomProps |-> IF p \in LengthProps THEN NoneF ELSE NoneV]]
\* a document object that carries the geometry properties of an earlier sync
SyncedObj ==
    [PropertiesList |-> PropNames,
     val |-> [p \in GeomProps |->
                CASE p = "ExtrusionDepth" -> F(1000)
                  [] p = "ExtrusionDirection" -> <<0, 0, 1>>
                  [] p = "RectangleLength" -> F(500)
                  [] p = "RectangleWidth" -> F(250)
                  [] OTHER -> HP2]]

\* ------------------------------------------------------------------- state
VARIABLES
    element,    \* the IFC element: its Representation (isNone: there is none)
    ifcfile,    \* the IFC file: unit scale, IfcCartesianPoint store, removed ids
    obj,        \* the host document object: PropertiesList and values
    last,       \* what the last call did: op, prop, ret, toolkit calls, ...
    steps,      \* number of calls made
    vp          \* the view provider and its GUI surroundings

geomVars == <<element, ifcfile, obj, last, steps>>
vars == <<element, ifcfile, obj, last, steps, vp>>

NoCall ==
    [op |-> "none", prop |-> "", ret |-> "None", calls |-> <<>>, direct |-> <<>>,
     added |-> <<>>, assigned |-> <<>>, orphan |-> {}]

\* the view provider before any call, with no document object around
VpIdle ==
    [Object |-> "unset", file |-> <<>>, children |-> <<>>, menu |-> <<>>,
     created |-> <<>>, op |-> "none", arg |-> "", ret |-> "None", ncalls |-> 0]

Init ==
    /\ \E s \in Scales, rs \in Elements, hasRep \in BOOLEAN, o \in {FreshObj, SyncedObj} :
         /\ hasRep \/ rs = <<>>
         /\ element = [Representation |->
                          [isNone |-> ~hasRep, Representations |-> rs]]
         /\ ifcfile = [unit_scale |-> s, Coordinates |-> InitCoordinates, removed |-> {}]
         /\ obj = o
    /\ last = NoCall
    /\ steps = 0
    /\ vp = VpIdle

\* ------------------------------------------------- ifc_tools (not in src/)
\* ifc_tools.has_representation(element)
has_representation(e) == ~e.Representation.isNone
\* ifcopenshell.util.unit.calculate_unit_scale(ifc_tools.get_ifcfile(obj))
calculate_unit_scale(f) == f.unit_scale

\* ------------------------------------------------------ add_geom_properties
\* scaling = scaling * 1000
PullScaling(f) == FMul(calculate_unit_scale(f), Thousand)

\* FreeCAD.Vector(p).multiply(scaling) on a 3-tuple
VecMul(p, k) == [i \in 1..Len(p) |-> FMul(p[i], k)]

\* (variant) addProperty called without looking at PropertiesList
AddPropertyAlways(st, name) ==
    [st EXCEPT !.obj.PropertiesList = @ \cup {name},
               !.added = Append(@, name)]

\* if name not in obj.PropertiesList: obj.addProperty(type, name, "Geometry")
AddPropertyIfMissing(st, name) ==
    IF name \notin st.obj.PropertiesList
    THEN [st EXCEPT !.obj.PropertiesList = @ \cup {name},
                    !.added = Append(@, name)]
    ELSE st

\* obj.<name> = value; orphan collects the names assigned while not a property
SetProperty(st, name, value) ==
    [st EXCEPT !.obj.val[name] = value,
               !.assigned = Append(@, name),
               !.orphan = @ \cup (IF name \in st.obj.PropertiesList THEN {} ELSE {name})]

\* points = [p + (0,) for p in points if len(p) < 3]
PadPoints(points) ==
    LET short == SelectSeq(points, LAMBDA p : Len(p) < 3)
    IN [i \in 1..Len(short) |-> short[i] \o <<F(0)>>]

\* lines 81-87: the vector list made from OuterCurve.Points
PulledPoints(curve, f, k) ==
    LET points == [i \in 1..Len(curve.Points) |-> f.Coordinates[curve.Points[i]]]
        padded == PadPoints(points)
    IN [i \in 1..Len(padded) |-> VecMul(padded[i], k)]

\* the rep passes lines 41-44
IsBodyExtrusion(rep) ==
    /\ rep.RepresentationIdentifier = "Body"
    /\ Len(rep.Items) = 1
    /\ IsA(rep.Items[1], "IfcExtrudedAreaSolid")

\* lines 73-74 (reached when the profile is no rectangle)
IsPolylineProfile(profile) ==
    /\ IsA(profile, "IfcArbitraryClosedProfileDef")
    /\ IsA(profile.OuterCurve, "IfcPolyline")

\* lines 45-88: the body of the loop for one extrusion
PullExtrusion(st, ext, f, k) ==
    LET s1 == SetProperty(AddPropertyIfMissing(st, "ExtrusionDepth"),
                          "ExtrusionDepth", FMul(ext.Depth, k))
        s2 == SetProperty(AddPropertyIfMissing(s1, "ExtrusionDirection"),
                          "ExtrusionDirection", ext.ExtrudedDirection.DirectionRatios)
    IN IF IsA(ext.SweptArea, "IfcRectangleProfileDef")
       THEN LET s3 == SetProperty(AddPropertyIfMissing(s2, "RectangleLength"),
                                  "RectangleLength", FMul(ext.SweptArea.XDim, k))
            IN SetProperty(AddPropertyIfMissing(s3, "RectangleWidth"),
                           "RectangleWidth", FMul(ext.SweptArea.YDim, k))
       ELSE IF IsPolylineProfile(ext.SweptArea)
       THEN SetProperty(AddPropertyIfMissing(s2, "PolylinePoints"),
                        "PolylinePoints",
                        PulledPoints(ext.SweptArea.OuterCurve, f, k))
       ELSE s2

\* lines 40-88: for rep in element.Representation.Representations
RECURSIVE PullReps(_, _, _, _, _)
PullReps(st, reps, i, f, k) ==
    IF i > Len(reps) THEN st
    ELSE PullReps(IF IsBodyExtrusion(reps[i])
                  THEN PullExtrusion(st, reps[i].Items[1], f, k)
                  ELSE st,
                  reps, i + 1, f, k)

\* add_geom_properties(obj): the object and the call record it leaves
add_geom_properties(o, e, f) ==
    LET st0 == [obj |-> o, added |-> <<>>, assigned |-> <<>>, orphan |-> {}]
    IN IF ~has_representation(e) THEN st0
       ELSE PullReps(st0, e.Representation.Representations, 1, f, PullScaling(f))

AddGeomProperties ==
    /\ steps < MaxSteps
    /\ LET st == add_geom_properties(obj, element, ifcfile)
       IN /\ obj' = st.obj
          /\ last' = [NoCall EXCEPT !.op = "add_geom_properties",
                                    !.added = st.added,
                                    !.assigned = st.assigned,
                                    !.orphan = st.orphan]
    /\ steps' = steps + 1
    /\ UNCHANGED <<element, ifcfile, vp>>

\* the user (or another command) gives a geometry property a new value
HostEdit ==
    /\ steps < MaxSteps
    /\ \E prop \in GeomProps \cap obj.PropertiesList :
         \E v \in EditValues[prop] \ {obj.val[prop]} :
            /\ obj' = [obj EXCEPT !.val[prop] = v]
            /\ last' = [NoCall EXCEPT !.op = "edit", !.prop = prop]
    /\ steps' = steps + 1
    /\ UNCHANGED <<element, ifcfile, vp>>

\* ------------------------------------------------------- set_geom_property
\* (variant) the push scaling taken in the pull direction: 0.001 * scaling
PushScalingMultiplied(f) == FMul(Milli, calculate_unit_scale(f))

\* 0.001 / s for every unit scale s of the model (each quotient computed once)
MilliOver == [s \in Scales |-> FDiv(Milli, s)]

\* scaling = 0.001 / scaling
PushScaling(f) == MilliOver[calculate_unit_scale(f)]

\* the toolkit calls, as the call record keeps them
EditAttributes(kind, where, attr) ==
    [usecase |-> "attribute.edit_attributes", product |-> <<kind, where>>, attr |-> attr]
CreateEntity(id) ==
    [usecase |-> "root.create_entity", product |-> <<"IfcCartesianPoint", id>>, attr |-> ""]
RemoveProduct(id) ==
    [usecase |-> "root.remove_product", product |-> <<"IfcCartesianPoint", id>>, attr |-> ""]

\* the first rep of the loop that passes the tests (hits: the indexes of the
\* reps that pass): its index, 0 when the loop runs to its end
FirstRep(hits) ==
    IF hits = {} THEN 0 ELSE CHOOSE i \in hits : \A j \in hits : i <= j

\* lines 163-168 / 179-184: the rep whose rectangle profile is edited
IsBodyRectangle(rep) ==
    /\ IsBodyExtrusion(rep)
    /\ IsA(rep.Items[1].SweptArea, "IfcRectangleProfileDef")

\* rep.Items[0].SweptArea (line 199) on an item without that attribute
NoSweptArea(item) == item.SweptArea = NoProfile

\* lines 195-199: the rep at which the loop stops: its one item is_a
\* IfcArbitraryClosedProfileDef (line 198), and line 199 either raises or
\* finds an IfcPolyline
IsBodyPolyline(rep) ==
    /\ rep.RepresentationIdentifier = "Body"
    /\ Len(rep.Items) = 1
    /\ IsA(rep.Items[1], "IfcArbitraryClosedProfileDef")
    /\ \/ NoSweptArea(rep.Items[1])
       \/ IsA(rep.Items[1].SweptArea.OuterCurve, "IfcPolyline")

\* what a call of set_geom_property that finds nothing leaves (line 233)
NotFound(e, f) ==
    [element |-> e, ifcfile |-> f, ret |-> "False", calls |-> <<>>, direct |-> <<>>]

\* lines 132-145
PushDepth(o, e, f) ==
    LET reps == e.Representation.Representations
        i == FirstRep({k \in 1..Len(reps) : IsBodyExtrusion(reps[k])})
        depth == FMul(o.val["ExtrusionDepth"], PushScaling(f))
    IN IF i = 0 THEN NotFound(e, f)
       ELSE [element |-> [e EXCEPT !.Representation.Representations[i].Items[1].Depth
                                      = depth],
             ifcfile |-> f, ret |-> "True",
             calls |-> <<EditAttributes("IfcExtrudedAreaSolid", i, "Depth")>>,
             direct |-> <<>>]

\* (variant) the direction is assigned to the entity, without the toolkit
PushDirectionAssigned(o, e, f) ==
    LET reps == e.Representation.Representations
        i == FirstRep({k \in 1..Len(reps) : IsBodyExtrusion(reps[k])})
        direction == o.val["ExtrusionDirection"]
    IN IF i = 0 THEN NotFound(e, f)
       ELSE [element |-> [e EXCEPT !.Representation.Representations[i].Items[1]
                                      .ExtrudedDirection.DirectionRatios = direction],
             ifcfile |-> f, ret |-> "True",
             calls |-> <<>>,
             direct |-> <<"DirectionRatios">>]

\* lines 147-160
PushDirection(o, e, f) ==
    LET reps == e.Representation.Representations
        i == FirstRep({k \in 1..Len(reps) : IsBodyExtrusion(reps[k])})
        direction == o.val["ExtrusionDirection"]
    IN IF i = 0 THEN NotFound(e, f)
       ELSE [element |-> [e EXCEPT !.Representation.Representations[i].Items[1]
                                      .ExtrudedDirection.DirectionRatios = direction],
             ifcfile |-> f, ret |-> "True",
             calls |-> <<EditAttributes("IfcDirection", i, "DirectionRatios")>>,
             direct |-> <<>>]

\* (variant) the edit is issued and the loop goes on to line 233
PushLengthFallsThrough(o, e, f) ==
    LET reps == e.Representation.Representations
        i == FirstRep({k \in 1..Len(reps) : IsBodyRectangle(reps[k])})
        value == FMul(o.val["RectangleLength"], PushScaling(f))
    IN IF i = 0 THEN NotFound(e, f)
       ELSE [element |-> [e EXCEPT !.Representation.Representations[i].Items[1]
                                      .SweptArea.XDim = value],
             ifcfile |-> f, ret |-> "False",
             calls |-> <<EditAttributes("IfcRectangleProfileDef", i, "XDim")>>,
             direct |-> <<>>]

\* lines 162-176
PushLength(o, e, f) ==
    LET reps == e.Representation.Representations
        i == FirstRep({k \in 1..Len(reps) : IsBodyRectangle(reps[k])})
        value == FMul(o.val["RectangleLength"], PushScaling(f))
    IN IF i = 0 THEN NotFound(e, f)
       ELSE [element |-> [e EXCEPT !.Representation.Representations[i].Items[1]
                                      .SweptArea.XDim = value],
             ifcfile |-> f, ret |-> "True",
             calls |-> <<EditAttributes("IfcRectangleProfileDef", i, "XDim")>>,
             direct |-> <<>>]

\* lines 178-192
PushWidth(o, e, f) ==
    LET reps == e.Representation.Representations
        i == FirstRep({k \in 1..Len(reps) : IsBodyRectangle(reps[k])})
        value == FMul(o.val["RectangleWidth"], PushScaling(f))
    IN IF i = 0 THEN NotFound(e, f)
       ELSE [element |-> [e EXCEPT !.Representation.Representations[i].Items[1]
                                      .SweptArea.YDim = value],
             ifcfile |-> f, ret |-> "True",
             calls |-> <<EditAttributes("IfcRectangleProfileDef", i, "YDim")>>,
             direct |-> <<>>]

Reverse(s) == [i \in 1..Len(s) |-> s[Len(s) + 1 - i]]
Range(s) == {s[i] : i \in 1..Len(s)}

\* the entity ids root.create_entity hands out: ids never used in the file
FreshIds(f, count) ==
    LET top == IF DOMAIN f.Coordinates = {} THEN 0
               ELSE CHOOSE x \in DOMAIN f.Coordinates :
                       \A y \in DOMAIN f.Coordinates : y <= x
    IN [i \in 1..count |-> top + i]

\* coord = tuple(v)[:psize]
Truncate(v, psize) == SubSeq(v, 1, IF psize < Len(v) THEN psize ELSE Len(v))

\* lines 223-231: one edit_attributes per host point, in order
RECURSIVE EditPoints(_, _, _, _, _, _)
EditPoints(coords, elem_points, points, i, k, psize) ==
    IF i > Len(points) THEN coords
    ELSE EditPoints([coords EXCEPT ![elem_points[i]] =
                        Truncate(VecMul(points[i], k), psize)],
                    elem_points, points, i + 1, k, psize)

\* lines 211 and 216: elem_points.append and elem_points.pop are there on a
\* list only; on a tuple the first of them raises AttributeError
Raises(curve, n) == curve.PointsType = "tuple" /\ n # Len(curve.Points)

\* lines 205-211: the entities root.create_entity made, all n - m for a list,
\* the one made before append raised for a tuple
CreatedPoints(curve, n, f) ==
    IF n <= Len(curve.Points) THEN <<>>
    ELSE IF Raises(curve, n) THEN FreshIds(f, 1)
    ELSE FreshIds(f, n - Len(curve.Points))

\* lines 204-217: elem_points after entities were appended or popped
ResizedPoints(curve, n, f) ==
    IF Raises(curve, n) THEN curve.Points
    ELSE IF n > Len(curve.Points) THEN curve.Points \o CreatedPoints(curve, n, f)
    ELSE SubSeq(curve.Points, 1, n)

\* lines 214-216: rest, in the order the points were popped
PoppedPoints(curve, n) ==
    IF n < Len(curve.Points) /\ ~Raises(curve, n)
    THEN Reverse(SubSeq(curve.Points, n + 1, Len(curve.Points)))
    ELSE <<>>

\* lines 194-232
PushPolyline(o, e, f) ==
    LET reps == e.Representation.Representations
        i == FirstRep({k \in 1..Len(reps) : IsBodyPolyline(reps[k])})
    IN IF i = 0 THEN NotFound(e, f)
       ELSE IF NoSweptArea(reps[i].Items[1])
       THEN \* line 199 raises AttributeError before anything is changed
            [NotFound(e, f) EXCEPT !.ret = "AttributeError"]
       ELSE
       LET curve == reps[i].Items[1].SweptArea.OuterCurve
           elem_points == curve.Points
           points == o.val["PolylinePoints"]
           n == Len(points)
           m == Len(elem_points)
       IN IF m = 0
          THEN \* elem_points[0] raises IndexError before anything is changed
               [NotFound(e, f) EXCEPT !.ret = "IndexError"]
          ELSE
          LET psize == Len(f.Coordinates[elem_points[1]])
              raised == Raises(curve, n)
              created == CreatedPoints(curve, n, f)
              rest == PoppedPoints(curve, n)
              resized == ResizedPoints(curve, n, f)
              store == [id \in DOMAIN f.Coordinates \cup Range(created) |->
                          IF id \in DOMAIN f.Coordinates THEN f.Coordinates[id]
                          ELSE NoneV]
          IN [element |-> [e EXCEPT !.Representation.Representations[i].Items[1]
                                       .SweptArea.OuterCurve.Points = resized],
              ifcfile |-> [f EXCEPT
                             !.Coordinates =
                                 IF raised THEN store
                                 ELSE EditPoints(store, resized, points, 1,
                                                 PushScaling(f), psize),
                             !.removed = @ \cup Range(rest)],
              ret |-> IF raised THEN "AttributeError" ELSE "True",
              calls |-> [j \in 1..Len(created) |-> CreateEntity(created[j])]
                        \o [j \in 1..Len(rest) |-> RemoveProduct(rest[j])]
                        \o (IF raised THEN <<>>
                            ELSE [j \in 1..n |->
                                    EditAttributes("IfcCartesianPoint", resized[j],
                                                   "Coordinates")]),
              \* elem.Points = elem_points (lines 212 and 217)
              direct |-> IF n # m /\ ~raised THEN <<"Points">> ELSE <<>>]

\* set_geom_property(obj, prop); line 130 evaluates getattr(obj, prop), which
\* raises AttributeError when the object has no such property
set_geom_property(o, prop, e, f) ==
    IF ~has_representation(e) THEN NotFound(e, f)
    ELSE IF prop \notin o.PropertiesList
    THEN [NotFound(e, f) EXCEPT !.ret = "AttributeError"]
    ELSE CASE prop = "ExtrusionDepth" -> PushDepth(o, e, f)
           [] prop = "ExtrusionDirection" -> PushDirection(o, e, f)
           [] prop = "RectangleLength" -> PushLength(o, e, f)
           [] prop = "RectangleWidth" -> PushWidth(o, e, f)
           [] prop = "PolylinePoints" -> PushPolyline(o, e, f)
           [] OTHER -> NotFound(e, f)

\* a call of set_geom_property with any property name
SetGeomProperty ==
    /\ steps < MaxSteps
    /\ \E prop \in PropNames :
         LET r == set_geom_property(obj, prop, element, ifcfile)
         IN /\ element' = r.element
            /\ ifcfile' = r.ifcfile
            /\ last' = [NoCall EXCEPT !.op = "set_geom_property",
                                      !.prop = prop,
                                      !.ret = r.ret,
                                      !.calls = r.calls,
                                      !.direct = r.direct]
    /\ steps' = steps + 1
    /\ UNCHANGED <<obj, vp>>

Next == AddGeomProperties \/ SetGeomProperty \/ HostEdit

Spec == Init /\ [][Next]_vars

\* ------------------------------------------------- ifc_vp_object (class)
\* The document objects of the GUI: vp.file[o] is whether
\* ifc_tools.get_ifcfile(o) is truthy, vp.children[o] whether
\* ifc_tools.get_children(o, ifcfile) is non-empty.
Objs == {"o1", "o2"}
DisplayModes == {"FlatLines", "Wireframe"}

\* a call (of the object argument arg, "" when it has none) that changes
\* nothing of the view provider and returns ret
VpReturnOf(v, name, arg, ret) ==
    [v EXCEPT !.op = name, !.arg = arg, !.ret = ret, !.ncalls = @ + 1]
VpReturn(v, name, ret) == VpReturnOf(v, name, "", ret)

\* def attach(self, vobj): self.Object = vobj.Object
attach(v, o) == [VpReturnOf(v, "attach", o, "None") EXCEPT !.Object = o]
getDisplayModes(v) == VpReturn(v, "getDisplayModes", "[]")
getDefaultDisplayMode(v) == VpReturn(v, "getDefaultDisplayMode", "FlatLines")
setDisplayMode(v, mode) == VpReturn(v, "setDisplayMode", mode)
onChanged(v) == VpReturn(v, "onChanged", "None")
updateData(v) == VpReturn(v, "updateData", "None")
getstate(v) == VpReturn(v, "__getstate__", "None")
setstate(v) == VpReturn(v, "__setstate__", "None")
getIcon(v) == VpReturn(v, "getIcon", "icons/IFC_object.svg")

\* the value hasChildren(obj) returns
hasChildrenValue(v, o) == IF v.file[o] THEN v.children[o] ELSE FALSE

hasChildren(v, o) ==
    VpReturnOf(v, "hasChildren", o,
               IF hasChildrenValue(v, o) THEN "True" ELSE "False")

setupContextMenu(v, o) ==
    IF hasChildrenValue(v, o)
    THEN [VpReturnOf(v, "setupContextMenu", o, "None") EXCEPT
            !.menu = Append(@, "Reveal children")]
    ELSE VpReturnOf(v, "setupContextMenu", o, "None")

\* (variant) the children are created whether or not there is an IFC file
revealChildrenUnguarded(v) ==
    IF v.Object = "unset" THEN VpReturn(v, "revealChildren", "AttributeError")
    ELSE [VpReturn(v, "revealChildren", "None") EXCEPT
            !.created = Append(@, v.Object)]

\* created lists the objects ifc_tools.create_children was called with;
\* before attach, self.Object is not there and the call raises
revealChildren(v) ==
    IF v.Object = "unset" THEN VpReturn(v, "revealChildren", "AttributeError")
    ELSE IF v.file[v.Object]
    THEN [VpReturn(v, "revealChildren", "None") EXCEPT
            !.created = Append(@, v.Object)]
    ELSE VpReturn(v, "revealChildren", "None")

VpCall(v) ==
    /\ vp.ncalls < MaxVpCalls
    /\ vp' = v
    /\ UNCHANGED geomVars

Attach == \E o \in Objs : VpCall(attach(vp, o))
GetDisplayModes == VpCall(getDisplayModes(vp))
GetDefaultDisplayMode == VpCall(getDefaultDisplayMode(vp))
SetDisplayMode == \E mode \in DisplayModes : VpCall(setDisplayMode(vp, mode))
OnChanged == VpCall(onChanged(vp))
UpdateData == VpCall(updateData(vp))
GetState == VpCall(getstate(vp))
SetState == VpCall(setstate(vp))
GetIcon == VpCall(getIcon(vp))
SetupContextMenu == \E o \in Objs : VpCall(setupContextMenu(vp, o))
HasChildren == \E o \in Objs : VpCall(hasChildren(vp, o))
RevealChildren == VpCall(revealChildren(vp))

InitVP ==
    /\ element = [Representation |-> [isNone |-> TRUE, Representations |-> <<>>]]
    /\ ifcfile = [unit_scale |-> Millimetre, Coordinates |-> InitCoordinates,
                  removed |-> {}]
    /\ obj = FreshObj
    /\ last = NoCall
    /\ steps = 0
    /\ \E f \in [Objs -> BOOLEAN], c \in [Objs -> BOOLEAN] :
         vp = [VpIdle EXCEPT !.file = f, !.children = c]

NextVP ==
    \/ Attach \/ GetDisplayModes \/ GetDefaultDisplayMode \/ SetDisplayMode
    \/ OnChanged \/ UpdateData \/ GetState \/ SetState \/ GetIcon
    \/ SetupContextMenu \/ HasChildren \/ RevealChildren

SpecVP == InitVP /\ [][NextVP]_vars

\* ================================================================= claims
Reps == element.Representation.Representations
HasRep == ~element.Representation.isNone

\* this step is a call of the named function
Called(name) == steps' = steps + 1 /\ last'.op = name

\* stated from the source text, not through the model's tests: a
\* representation with identifier Body that holds exactly one item of cls
BodyWithOne(rep, cls) ==
    /\ rep.RepresentationIdentifier = "Body"
    /\ Len(rep.Items) = 1
    /\ rep.Items[1].cls = cls
BodiesWithOne(cls) == {i \in 1..Len(Reps) : BodyWithOne(Reps[i], cls)}
RectBodies ==
    {i \in BodiesWithOne("IfcExtrudedAreaSolid") :
        Reps[i].Items[1].SweptArea.cls = "IfcRectangleProfileDef"}
PolyBodies ==
    {i \in BodiesWithOne("IfcExtrudedAreaSolid") :
        /\ Reps[i].Items[1].SweptArea.cls = "IfcArbitraryClosedProfileDef"
        /\ Reps[i].Items[1].SweptArea.OuterCurve.cls = "IfcPolyline"}
\* exactly one Body representation holding a single IfcExtrudedAreaSolid
SingleBody == HasRep /\ Cardinality(BodiesWithOne("IfcExtrudedAreaSolid")) = 1
TheBody == CHOOSE i \in BodiesWithOne("IfcExtrudedAreaSolid") : TRUE

ExtrusionProps == LengthProps \cup {"ExtrusionDirection"}

\* the IFC attribute a host property mirrors, read from representation i
IfcValue(e, i, prop) ==
    LET item == e.Representation.Representations[i].Items[1]
    IN CASE prop = "ExtrusionDepth" -> item.Depth
         [] prop = "ExtrusionDirection" -> item.ExtrudedDirection.DirectionRatios
         [] prop = "RectangleLength" -> item.SweptArea.XDim
         [] prop = "RectangleWidth" -> item.SweptArea.YDim

\* what the claim says pull and push compute: x * (s * 1000), v * (0.001 / s)
ToHost(x, s) == FMul(x, FMul(s, Thousand))
ToIfc(v, s) == FMul(v, MilliOver[s])

\* C2 as stated: on an element with exactly one Body representation holding
\* a single extrusion, pull and push are inverse on ExtrusionDepth,
\* RectangleLength and RectangleWidth: (i) a push that follows a pull leaves
\* the IFC model as it was, (ii) a pull that follows a successful push of a
\* host value leaves the host property at that value; pull multiplies by
\* s*1000, push by 0.001/s, and ExtrusionDirection is copied unscaled in both
\* directions.
C2_PullPushInverse ==
    [][ SingleBody =>
        /\ (last.op = "add_geom_properties" /\ Called("set_geom_property")
            /\ last'.prop \in ExtrusionProps)
           => element' = element
        /\ (last.op = "set_geom_property" /\ last.ret = "True"
            /\ last.prop \in ExtrusionProps /\ Called("add_geom_properties"))
           => obj'.val[last.prop] = obj.val[last.prop]
        /\ Called("add_geom_properties")
           => /\ obj'.val["ExtrusionDepth"]
                   = ToHost(IfcValue(element, TheBody, "ExtrusionDepth"),
                            ifcfile.unit_scale)
              /\ obj'.val["ExtrusionDirection"]
                   = IfcValue(element, TheBody, "ExtrusionDirection")
              /\ TheBody \in RectBodies
                 => \A p \in {"RectangleLength", "RectangleWidth"} :
                       obj'.val[p] = ToHost(IfcValue(element, TheBody, p),
                                            ifcfile.unit_scale)
        /\ (Called("set_geom_property") /\ last'.ret = "True"
            /\ last'.prop \in ExtrusionProps)
           => IfcValue(element', TheBody, last'.prop)
                = IF last'.prop = "ExtrusionDirection"
                  THEN obj.val[last'.prop]
                  ELSE ToIfc(obj.val[last'.prop], ifcfile.unit_scale)
      ]_vars

\* |a - b| <= 2^-50 * |b| for floats a and b (equal values are close, also
\* when they are no floats): the mantissas, brought to one exponent, differ
\* by at most the three leading bits of b's mantissa
Close(a, b) ==
    \/ a = b
    \/ /\ a.man # <<>> /\ b.man # <<>>
       /\ ~IsZero(a) /\ ~IsZero(b)
       /\ a.sgn = b.sgn
       /\ a.exp - b.exp \in {-1, 0, 1}
       /\ LET x == IF a.exp > b.exp THEN ShiftLeft(a.man, 1) ELSE a.man
              y == IF b.exp > a.exp THEN ShiftLeft(b.man, 1) ELSE b.man
              d == IF Ge4(x, y) THEN Sub4(x, y) ELSE Sub4(y, x)
          IN /\ d[2] = 0 /\ d[3] = 0 /\ d[4] = 0
             /\ d[1] <= b.man[4] \div (IF b.exp > a.exp THEN 2^7 ELSE 2^8)

\* C2 as amended: the two conversions are inverse up to the rounding of the
\* float operations: (i) a push of a length that follows a pull leaves the
\* IFC value within 2^-50 (relative) of what it was and nothing else changed,
\* (ii) a pull that follows a successful push of a host length leaves the host
\* property within 2^-50 of the pushed value; in a millimetre file, where both
\* factors are 1.0, and for ExtrusionDirection the values are equal; pull
\* multiplies by s*1000 and push by 0.001/s.
C2_PullPushRounded ==
    [][ SingleBody =>
        /\ (last.op = "add_geom_properties" /\ Called("set_geom_property")
            /\ last'.prop \in ExtrusionProps)
           => /\ ifcfile' = ifcfile
              /\ \A p \in ExtrusionProps :
                    IF p = last'.prop /\ p \in LengthProps
                    THEN Close(IfcValue(element', TheBody, p),
                               IfcValue(element, TheBody, p))
                    ELSE IfcValue(element', TheBody, p) = IfcValue(element, TheBody, p)
              /\ ifcfile.unit_scale = Millimetre => element' = element
        /\ (last.op = "set_geom_property" /\ last.ret = "True"
            /\ last.prop \in ExtrusionProps /\ Called("add_geom_properties"))
           => IF last.prop \in LengthProps /\ ifcfile.unit_scale # Millimetre
              THEN Close(obj'.val[last.prop], obj.val[last.prop])
              ELSE obj'.val[last.prop] = obj.val[last.prop]
        /\ Called("add_geom_properties")
           => /\ obj'.val["ExtrusionDepth"]
                   = ToHost(IfcValue(element, TheBody, "ExtrusionDepth"),
                            ifcfile.unit_scale)
              /\ obj'.val["ExtrusionDirection"]
                   = IfcValue(element, TheBody, "ExtrusionDirection")
              /\ TheBody \in RectBodies
                 => \A p \in {"RectangleLength", "RectangleWidth"} :
                       obj'.val[p] = ToHost(IfcValue(element, TheBody, p),
                                            ifcfile.unit_scale)
        /\ (Called("set_geom_property") /\ last'.ret = "True"
            /\ last'.prop \in ExtrusionProps)
           => IfcValue(element', TheBody, last'.prop)
                = IF last'.prop = "ExtrusionDirection"
                  THEN obj.val[last'.prop]
                  ELSE ToIfc(obj.val[last'.prop], ifcfile.unit_scale)
      ]_vars

\* C2 witness: a foot file, one Body rectangle extrusion; RectangleWidth was
\* pushed at 250 mm and the pull that followed left it one unit in the last
\* place above 250 mm
C2_Witness ==
    /\ SingleBody /\ TheBody \in RectBodies
    /\ ifcfile.unit_scale = Foot
    /\ steps = 2 /\ last.op = "add_geom_properties"
    /\ IfcValue(element, TheBody, "RectangleWidth") = ToIfc(F(250), Foot)
    /\ obj.val["RectangleWidth"] = [F(250) EXCEPT !.man[1] = @ + 1]

\* the class of item a property's branch of set_geom_property asks for
\* (lines 136, 151, 166, 182, 198); no class for any other property
NeededClass(prop) ==
    IF prop \in ExtrusionProps THEN "IfcExtrudedAreaSolid"
    ELSE IF prop = "PolylinePoints" THEN "IfcArbitraryClosedProfileDef"
    ELSE "None"

\* C4: without a representation, or without a Body representation holding
\* exactly one item of the needed shape class, add_geom_properties adds no
\* property and writes no host value, and set_geom_property issues no toolkit
\* call, changes nothing in the IFC model and returns False; the same holds
\* for RectangleLength and RectangleWidth when no such extrusion has a
\* rectangle profile.
C4_SilentNoOp ==
    [][ /\ (Called("add_geom_properties")
            /\ (~HasRep \/ BodiesWithOne("IfcExtrudedAreaSolid") = {}))
           => /\ obj' = obj
              /\ last'.added = <<>> /\ last'.assigned = <<>>
        /\ (Called("set_geom_property")
            /\ \/ ~HasRep
               \/ BodiesWithOne(NeededClass(last'.prop)) = {}
               \/ last'.prop \in {"RectangleLength", "RectangleWidth"}
                  /\ RectBodies = {})
           => /\ last'.ret = "False"
              /\ last'.calls = <<>> /\ last'.direct = <<>>
              /\ element' = element /\ ifcfile' = ifcfile
      ]_vars

NoDuplicates(s) == \A i, j \in 1..Len(s) : s[i] = s[j] => i = j

\* the geometry properties whose shape class the element shows
DetectedProps ==
    IF ~HasRep THEN {}
    ELSE (IF BodiesWithOne("IfcExtrudedAreaSolid") # {}
          THEN {"ExtrusionDepth", "ExtrusionDirection"} ELSE {})
         \cup (IF RectBodies # {} THEN {"RectangleLength", "RectangleWidth"} ELSE {})
         \cup (IF PolyBodies # {} THEN {"PolylinePoints"} ELSE {})

\* C6: over any sequence of add_geom_properties calls a geometry property is
\* added at most once and never while its name is in PropertiesList, every
\* assignment happens while the name is in PropertiesList, no property is
\* ever removed, and a property is added only in a call that detected its
\* shape class.
C6_LazyProperties ==
    [][ /\ obj.PropertiesList \subseteq obj'.PropertiesList
        /\ Called("add_geom_properties")
           => /\ NoDuplicates(last'.added)
              /\ Range(last'.added) \cap obj.PropertiesList = {}
              /\ obj'.PropertiesList = obj.PropertiesList \cup Range(last'.added)
              /\ last'.orphan = {}
              /\ Range(last'.assigned) \subseteq obj'.PropertiesList
              /\ Range(last'.added) \subseteq DetectedProps
      ]_vars

\* C6 witness: a second add_geom_properties on a polyline extrusion: the
\* three properties are there, they are assigned again and none is added
C6_Witness ==
    /\ steps = 2 /\ last.op = "add_geom_properties"
    /\ PolyBodies # {}
    /\ obj.PropertiesList = {"Label", "ExtrusionDepth", "ExtrusionDirection",
                             "PolylinePoints"}
    /\ last.added = <<>>
    /\ last.assigned = <<"ExtrusionDepth", "ExtrusionDirection", "PolylinePoints">>

\* the calls a successful push of prop on representation i must have issued
IsEditOf(call, prop, i) ==
    /\ call.usecase = "attribute.edit_attributes"
    /\ call.product[2] = i
    /\ call.attr = (CASE prop = "ExtrusionDepth" -> "Depth"
                      [] prop = "ExtrusionDirection" -> "DirectionRatios"
                      [] prop = "RectangleLength" -> "XDim"
                      [] prop = "RectangleWidth" -> "YDim")

\* C9: the return value of set_geom_property tells whether the IFC model was
\* touched: when False comes back nothing was created, removed or edited;
\* when True comes back the target of the property was there and all its
\* edits were issued; the host object is never written.
C9_ReturnTellsEffect ==
    [][ Called("set_geom_property") =>
        /\ obj' = obj
        /\ last'.ret = "False"
           => /\ element' = element /\ ifcfile' = ifcfile
              /\ last'.calls = <<>> /\ last'.direct = <<>>
        /\ (last'.ret = "True" /\ last'.prop \in ExtrusionProps)
           => /\ HasRep
              /\ \E i \in BodiesWithOne("IfcExtrudedAreaSolid") :
                    /\ Len(last'.calls) = 1
                    /\ IsEditOf(last'.calls[1], last'.prop, i)
                    /\ IfcValue(element', i, last'.prop)
                         = IF last'.prop = "ExtrusionDirection"
                           THEN obj.val[last'.prop]
                           ELSE ToIfc(obj.val[last'.prop], ifcfile.unit_scale)
        /\ (last'.ret = "True" /\ last'.prop = "PolylinePoints")
           => /\ HasRep
              /\ \E i \in BodiesWithOne("IfcArbitraryClosedProfileDef") :
                    LET n == Len(obj.val["PolylinePoints"])
                        edits == SelectSeq(last'.calls,
                                   LAMBDA c : c.usecase = "attribute.edit_attributes")
                        pts == element'.Representation.Representations[i].Items[1]
                                  .SweptArea.OuterCurve.Points
                    IN /\ Len(pts) = n
                       /\ Len(edits) = n
                       /\ \A j \in 1..n :
                             edits[j] = EditAttributes("IfcCartesianPoint", pts[j],
                                                       "Coordinates")
        /\ last'.ret = "True" => last'.prop \in GeomProps
      ]_vars

\* C9 witness: a push that returned True after its edit, and the host object
\* the call read is unchanged (RectangleLength 500 mm, a millimetre file)
C9_Witness ==
    /\ last.op = "set_geom_property" /\ last.prop = "RectangleLength"
    /\ last.ret = "True" /\ Len(last.calls) = 1
    /\ obj = SyncedObj
    /\ \E i \in RectBodies : IfcValue(element, i, "RectangleLength") = F(500)

\* C5: the IFC model is changed through the toolkit only:
\* add_geom_properties changes no entity and no attribute, and every change
\* set_geom_property makes comes with a toolkit call; no attribute of an
\* entity is ever assigned directly.
C5_OnlyToolkitWrites ==
    [][ /\ Called("add_geom_properties")
           => element' = element /\ ifcfile' = ifcfile
        /\ Called("set_geom_property")
           => /\ last'.direct = <<>>
              /\ (element' # element \/ ifcfile' # ifcfile) => last'.calls # <<>>
      ]_vars

\* C5 witness: a push changed the direction of the extrusion, by one
\* edit_attributes call and no assignment
C5_Witness ==
    /\ last.op = "set_geom_property" /\ last.prop = "ExtrusionDirection"
    /\ last.ret = "True" /\ last.direct = <<>>
    /\ last.calls = <<EditAttributes("IfcDirection", 1, "DirectionRatios")>>
    /\ obj.val["ExtrusionDirection"] = <<1, 1, 0>>
    /\ Reps[1].Items[1].ExtrudedDirection.DirectionRatios = <<1, 1, 0>>

\* this step is a call of the named view provider method
VpCalled(name) == vp'.ncalls = vp.ncalls + 1 /\ vp'.op = name

\* C7: children are created only on demand: create_children is called only
\* inside revealChildren and only when the attached object has an IFC file;
\* setupContextMenu adds the "Reveal children" action exactly when
\* hasChildren is True (the object has an IFC file and get_children is not
\* empty); no other method adds an action; onChanged and updateData change
\* no state.
C7_ChildrenOnDemand ==
    [][ /\ vp'.created # vp.created
           => /\ VpCalled("revealChildren")
              /\ vp.Object \in Objs
              /\ vp.file[vp.Object]
              /\ vp'.created = Append(vp.created, vp.Object)
        /\ VpCalled("revealChildren")
           => (vp'.created # vp.created)
                 <=> (vp.Object \in Objs /\ vp.file[vp.Object])
        /\ vp'.menu # vp.menu => VpCalled("setupContextMenu")
        /\ VpCalled("setupContextMenu")
           => IF vp.file[vp'.arg] /\ vp.children[vp'.arg]
              THEN vp'.menu = Append(vp.menu, "Reveal children")
              ELSE vp'.menu = vp.menu
        /\ VpCalled("hasChildren")
           => (vp'.ret = "True") <=> (vp.file[vp'.arg] /\ vp.children[vp'.arg])
        /\ (VpCalled("onChanged") \/ VpCalled("updateData"))
           => /\ vp'.Object = vp.Object /\ vp'.menu = vp.menu
              /\ vp'.created = vp.created
              /\ vp'.file = vp.file /\ vp'.children = vp.children
              /\ vp'.ret = "None"
      ]_vars

\* C7 witness: attached, the menu got its action, and the action's handler
\* created the children
C7_Witness ==
    /\ vp.op = "revealChildren"
    /\ vp.menu = <<"Reveal children">>
    /\ vp.created = <<vp.Object>>

\* ---------------------------------------------- claims the code falls short of
\* C1: every property add_geom_properties added to the object is handled by
\* a following set_geom_property: the entity is found, the edit issued and
\* True returned.
C1_PushHandlesPulled ==
    [][ (last.op = "add_geom_properties" /\ Called("set_geom_property")
         /\ last'.prop \in Range(last.added))
        => last'.ret = "True" /\ last'.calls # <<>>
      ]_vars

\* a 2-coordinate point padded with a 0 third coordinate
Padded(p) == IF Len(p) < 3 THEN p \o <<F(0)>> ELSE p

\* C3: after add_geom_properties met a Body extrusion with a polyline
\* profile, PolylinePoints has as many entries as OuterCurve.Points, in the
\* same order, the 2-coordinate points padded with 0.
C3_PolylineCounts ==
    (last.op = "add_geom_properties" /\ HasRep /\ PolyBodies # {})
    => LET i == CHOOSE x \in PolyBodies : \A y \in PolyBodies : y <= x
           pts == Reps[i].Items[1].SweptArea.OuterCurve.Points
       IN /\ Len(obj.val["PolylinePoints"]) = Len(pts)
          /\ \A j \in 1..Len(pts) :
                obj.val["PolylinePoints"][j]
                  = VecMul(Padded(ifcfile.Coordinates[pts[j]]),
                           FMul(ifcfile.unit_scale, Thousand))

CountCalls(calls, c) == Cardinality({j \in 1..Len(calls) : calls[j] = c})

C10_SameEntity ==
    [][ (last.op = "set_geom_property" /\ last.ret = "True"
         /\ last.prop \in ExtrusionProps /\ Called("add_geom_properties"))
        => IF last.prop \in LengthProps
           THEN Close(obj'.val[last.prop], obj.val[last.prop])
           ELSE obj'.val[last.prop] = obj.val[last.prop]
      ]_vars

====
